---- MODULE Spec2Model ----
(***************************************************************************)
(* State-machine model of the VAT bookkeeping bot (src/index.js): the      *)
(* in-memory session store, the webhook handler with its suspension        *)
(* points (classifier call, chat-message delivery), the line tokenizer,    *)
(* the date resolver, the net/VAT/gross arithmetic and the aggregates.     *)
(*                                                                         *)
(* Text is a sequence of characters.  An ASCII character is the string of  *)
(* that character; a Cyrillic letter is the string of its Unicode letter   *)
(* name (ze, pe, de, ve, be, ie, ka, a; capitals in upper case); the line  *)
(* feed is "LF" and the tab is "TAB".                                      *)
(*                                                                         *)
(* Money: a typed amount is an integer number of 1/Scale currency units;   *)
(* the fields of an entry (toFixed(2) results) are integer cents.          *)
(***************************************************************************)
EXTENDS Integers, Sequences, FiniteSets, TLC

\* ------------------------------------------------------------------ bounds
\* Decimals kept of a typed amount (amounts are typed with at most 3).
MaxDecimals == 3
\* Entries in the store plus lines still being ingested, over all sessions.
MaxLedger == 2

\* The same, when two requests of one session are handled at a time.
SessMaxLedger == 3

\* ---------------------------------------------------------------- characters
Digits == <<"0", "1", "2", "3", "4", "5", "6", "7", "8", "9">>

DigitChars == {Digits[i] : i \in 1..10}

DigitVal(c) == (CHOOSE i \in 1..10 : Digits[i] = c) - 1

LowerLatin ==
    {"a", "b", "c", "d", "e", "f", "g", "h", "i", "j", "k", "l", "m",
     "n", "o", "p", "q", "r", "s", "t", "u", "v", "w", "x", "y", "z"}

UpperLatin ==
    {"A", "B", "C", "D", "E", "F", "G", "H", "I", "J", "K", "L", "M",
     "N", "O", "P", "Q", "R", "S", "T", "U", "V", "W", "X", "Y", "Z"}

\* [a-zA-Z]
IsLatin(c) == c \in LowerLatin \cup UpperLatin

\* \d
IsDigit(c) == c \in DigitChars

\* \s (within one line)
SpaceChars == {" ", "TAB"}

IsSpace(c) == c \in SpaceChars

\* \w
IsWord(c) == IsLatin(c) \/ IsDigit(c) \/ c = "_"

\* The pairs (upper, lower) of the letters the model's texts use.
CasePairs ==
    {<<"A", "a">>, <<"B", "b">>, <<"C", "c">>, <<"D", "d">>, <<"E", "e">>,
     <<"F", "f">>, <<"G", "g">>, <<"H", "h">>, <<"I", "i">>, <<"J", "j">>,
     <<"K", "k">>, <<"L", "l">>, <<"M", "m">>, <<"N", "n">>, <<"O", "o">>,
     <<"P", "p">>, <<"Q", "q">>, <<"R", "r">>, <<"S", "s">>, <<"T", "t">>,
     <<"U", "u">>, <<"V", "v">>, <<"W", "w">>, <<"X", "x">>, <<"Y", "y">>,
     <<"Z", "z">>,
     <<"ZE", "ze">>, <<"PE", "pe">>, <<"DE", "de">>, <<"VE", "ve">>,
     <<"BE", "be">>, <<"IE", "ie">>, <<"KA", "ka">>, <<"A_", "a_">>}

UpperOf == [c \in {p[2] : p \in CasePairs} |->
              (CHOOSE p \in CasePairs : p[2] = c)[1]]

LowerOf == [c \in {p[1] : p \in CasePairs} |->
              (CHOOSE p \in CasePairs : p[1] = c)[2]]

ToUpperChar(c) == IF c \in DOMAIN UpperOf THEN UpperOf[c] ELSE c

ToLowerChar(c) == IF c \in DOMAIN LowerOf THEN LowerOf[c] ELSE c

\* String.prototype.toUpperCase
toUpperCase(s) == [i \in 1..Len(s) |-> ToUpperChar(s[i])]

\* String.prototype.slice(from) with 0 <= from, and slice(0, n)
SliceFrom(s, from) == SubSeq(s, from + 1, Len(s))

SliceTo(s, n) == SubSeq(s, 1, IF n < Len(s) THEN n ELSE Len(s))

\* String.prototype.trim
RECURSIVE TrimLeft(_)
TrimLeft(s) ==
    IF s # <<>> /\ (IsSpace(s[1]) \/ s[1] = "LF") THEN TrimLeft(Tail(s)) ELSE s

RECURSIVE TrimRight(_)
TrimRight(s) ==
    IF s # <<>> /\ (IsSpace(s[Len(s)]) \/ s[Len(s)] = "LF")
    THEN TrimRight(SubSeq(s, 1, Len(s) - 1))
    ELSE s

trim(s) == TrimRight(TrimLeft(s))

\* String.prototype.split("\n")
RECURSIVE SplitLines(_)
SplitLines(s) ==
    IF \E i \in 1..Len(s) : s[i] = "LF"
    THEN LET i == CHOOSE k \in 1..Len(s) :
                      s[k] = "LF" /\ \A j \in 1..(k - 1) : s[j] # "LF"
         IN  <<SubSeq(s, 1, i - 1)>> \o SplitLines(SubSeq(s, i + 1, Len(s)))
    ELSE <<s>>

\* String.prototype.startsWith
startsWith(s, p) == Len(s) >= Len(p) /\ SubSeq(s, 1, Len(p)) = p

\* The length of the longest run of characters of the class cls that starts
\* at position i of s (positions from 1).
RunLen(s, i, cls) ==
    LET Ends == {n \in 0..(Len(s) - i + 1) :
                    \A j \in i..(i + n - 1) : s[j] \in cls}
    IN  CHOOSE n \in Ends : \A k \in Ends : k <= n

AllDigits(s, from, to) == \A j \in from..to : IsDigit(s[j])

\* \b at the gap before position i of s (between s[i-1] and s[i]).
WordBoundary(s, i) ==
    LET before == i > 1 /\ IsWord(s[i - 1])
        after  == i <= Len(s) /\ IsWord(s[i])
    IN  before # after

\* ------------------------------------------------------------------ numbers
RECURSIVE Pow10(_)
Pow10(n) == IF n = 0 THEN 1 ELSE 10 * Pow10(n - 1)

\* One currency unit, in the units typed amounts are counted in.
Scale == Pow10(MaxDecimals)

\* The number a sequence of decimal digits denotes.
RECURSIVE DecVal(_)
DecVal(ds) ==
    IF ds = <<>> THEN 0
    ELSE 10 * DecVal(SubSeq(ds, 1, Len(ds) - 1)) + DigitVal(ds[Len(ds)])

\* parseFloat on a string of digits, "." and ",": the longest prefix
\* digits [. digits] with at least one digit. <<>> is NaN, <<v>> the number
\* v / Scale.
parseFloat(s) ==
    LET intLen  == RunLen(s, 1, DigitChars)
        hasDot  == intLen < Len(s) /\ s[intLen + 1] = "."
        fracLen == IF hasDot THEN RunLen(s, intLen + 2, DigitChars) ELSE 0
        kept    == IF fracLen < MaxDecimals THEN fracLen ELSE MaxDecimals
        frac    == SubSeq(s, intLen + 2, intLen + 1 + kept)
    IN  IF intLen + fracLen = 0 THEN <<>>
        ELSE <<DecVal(SubSeq(s, 1, intLen)) * Scale
                 + DecVal(frac) * Pow10(MaxDecimals - kept)>>

\* +x.toFixed(2) for x = n / d (d > 0), in cents. A value exactly half way
\* between two cents is stored as a binary double just below or just above
\* it, so either neighbour can result.
toFixed2(n, d) ==
    LET mag  == IF n < 0 THEN -n ELSE n
        a    == (mag % d) * 100
        q    == (mag \div d) * 100 + (a \div d)
        rem  == a % d
        mags == IF 2 * rem < d THEN {q}
                ELSE IF 2 * rem > d THEN {q + 1}
                ELSE {q, q + 1}
    IN  IF n < 0 THEN {-m : m \in mags} ELSE mags

\* ------------------------------------------------------------------ helpers
\* The local year and month and the UTC date of each instant of the clock:
\* a server whose zone is ahead of UTC, before and after its new year.
Timeline ==
    << [year |-> 2024, month |-> 12, utc |-> <<2024, 12, 31>>],
       [year |-> 2025, month |-> 1,  utc |-> <<2024, 12, 31>>] >>

\* String(n).padStart(2, "0") for 0 <= n <= 99
Pad2(n) ==
    IF n < 10 THEN <<"0", Digits[n + 1]>>
    ELSE <<Digits[(n \div 10) + 1], Digits[(n % 10) + 1]>>

\* String(n) for a four-digit year
Str4(n) == Pad2(n \div 100) \o Pad2(n % 100)

\* new Date().toISOString().slice(0, 10) at instant t
UtcToday(t) ==
    LET u == Timeline[t].utc
    IN  Str4(u[1]) \o <<"-">> \o Pad2(u[2]) \o <<"-">> \o Pad2(u[3])

\* `${now.getFullYear()}-${String(now.getMonth() + 1).padStart(2, "0")}`
LocalMonth(t) == Str4(Timeline[t].year) \o <<"-">> \o Pad2(Timeline[t].month)

\* String(now.getFullYear())
LocalYear(t) == Str4(Timeline[t].year)

\* /^\d{4}-\d{2}-\d{2}$/
IsIsoShape(s) ==
    /\ Len(s) = 10
    /\ AllDigits(s, 1, 4) /\ s[5] = "-"
    /\ AllDigits(s, 6, 7) /\ s[8] = "-"
    /\ AllDigits(s, 9, 10)

\* toISO(dateLike) at instant t; <<>> is a missing argument.
toISO(dateLike, t) == IF IsIsoShape(dateLike) THEN dateLike ELSE UtcToday(t)

monthOf(dateStr) == SliceTo(dateStr, 7)

yearOf(dateStr) == SliceTo(dateStr, 4)

\* A match of /\b(\d{4})-(\d{2})-(\d{2})\b/ starts at position i of text.
IsoAt(text, i) ==
    /\ i + 9 <= Len(text)
    /\ AllDigits(text, i, i + 3) /\ text[i + 4] = "-"
    /\ AllDigits(text, i + 5, i + 6) /\ text[i + 7] = "-"
    /\ AllDigits(text, i + 8, i + 9)
    /\ WordBoundary(text, i) /\ WordBoundary(text, i + 10)

\* A match of /\b(\d{2})\.(\d{2})\.(\d{4})\b/ starts at position i of text.
DottedAt(text, i) ==
    /\ i + 9 <= Len(text)
    /\ AllDigits(text, i, i + 1) /\ text[i + 2] = "."
    /\ AllDigits(text, i + 3, i + 4) /\ text[i + 5] = "."
    /\ AllDigits(text, i + 6, i + 9)
    /\ WordBoundary(text, i) /\ WordBoundary(text, i + 10)

First(S) == CHOOSE i \in S : \A j \in S : i <= j

\* detectExplicitDate(text); <<>> is null.
detectExplicitDate(text) ==
    LET iso == {i \in 1..Len(text) : IsoAt(text, i)}
        dot == {i \in 1..Len(text) : DottedAt(text, i)}
    IN  IF iso # {}
        THEN SubSeq(text, First(iso), First(iso) + 9)
        ELSE IF dot # {}
        THEN LET i == First(dot)
             IN  SubSeq(text, i + 6, i + 9) \o <<"-">> \o SubSeq(text, i + 3, i + 4)
                   \o <<"-">> \o SubSeq(text, i, i + 1)
        ELSE <<>>

\* A variant of computeTriplet that takes the VAT of a gross amount as
\* amount * rate, as for a net amount.
computeTripletVatOnGross(amount, amountType, vatRate, vatApplicable) ==
    LET A == amount
        r == IF vatApplicable THEN vatRate ELSE 0
    IN  IF r <= 0
        THEN {[net |-> n, vat |-> 0, gross |-> n] : n \in toFixed2(A, Scale)}
        ELSE IF amountType = "net"
        THEN UNION {UNION {
                 {[net |-> n, vat |-> v, gross |-> g] :
                      g \in toFixed2(100 * A + Scale * v, 100 * Scale)} :
                 v \in toFixed2(A * r, Scale * 100)} :
                 n \in toFixed2(A, Scale)}
        ELSE UNION {UNION {
                 {[net |-> n, vat |-> v, gross |-> g] :
                      g \in toFixed2(A, Scale)} :
                 v \in toFixed2(A * r, Scale * 100)} :
                 n \in toFixed2(100 * A, Scale * (100 + r))}

\* A variant of computeTriplet that does not add the VAT to a net amount.
computeTripletNetAsGross(amount, amountType, vatRate, vatApplicable) ==
    LET A == amount
        r == IF vatApplicable THEN vatRate ELSE 0
    IN  IF r <= 0
        THEN {[net |-> n, vat |-> 0, gross |-> n] : n \in toFixed2(A, Scale)}
        ELSE IF amountType = "net"
        THEN UNION {
                 {[net |-> n, vat |-> v, gross |-> n] :
                      v \in toFixed2(A * r, Scale * 100)} :
                 n \in toFixed2(A, Scale)}
        ELSE UNION {UNION {
                 {[net |-> n, vat |-> v, gross |-> g] :
                      g \in toFixed2(A, Scale)} :
                 v \in toFixed2(100 * A - Scale * n, 100 * Scale)} :
                 n \in toFixed2(100 * A, Scale * (100 + r))}

\* computeTriplet(amount, amountType, vatRate, vatApplicable): the triplets
\* (in cents) the three toFixed(2) roundings can give for an amount of
\* amount / Scale units.
computeTriplet(amount, amountType, vatRate, vatApplicable) ==
    LET A == amount
        r == IF vatApplicable THEN vatRate ELSE 0
    IN  IF r <= 0
        THEN {[net |-> n, vat |-> 0, gross |-> n] : n \in toFixed2(A, Scale)}
        ELSE IF amountType = "net"
        THEN UNION {UNION {
                 {[net |-> n, vat |-> v, gross |-> g] :
                      g \in toFixed2(100 * A + Scale * v, 100 * Scale)} :
                 v \in toFixed2(A * r, Scale * 100)} :
                 n \in toFixed2(A, Scale)}
        ELSE UNION {UNION {
                 {[net |-> n, vat |-> v, gross |-> g] :
                      g \in toFixed2(A, Scale)} :
                 v \in toFixed2(100 * A - Scale * n, 100 * Scale)} :
                 n \in toFixed2(100 * A, Scale * (100 + r))}

\* /[\d\s.,]/
AmountChars == DigitChars \cup SpaceChars \cup {".", ","}

\* s.replace(/\s+/g, "")
StripSpaces(s) == SelectSeq(s, LAMBDA c : ~IsSpace(c))

\* s.replace(",", "."): the first comma only
ReplaceFirstComma(s) ==
    LET commas == {i \in 1..Len(s) : s[i] = ","}
    IN  IF commas = {} THEN s
        ELSE [i \in 1..Len(s) |-> IF i = First(commas) THEN "." ELSE s[i]]

\* The body of quickLines' map over one trimmed, non-empty line: <<>> is
\* null, <<l>> a provisional line. The line matches
\* /^([+-])\s*([\d\s.,]+)\s*([a-zA-Z]{3})?/ when a sign is followed by a
\* non-empty run of amount characters; group 2 is the run less its leading
\* white space (its last blank when it is all white space), and group 3 the
\* three letters that follow the run, if any.
MatchLine(line) ==
    IF ~(line # <<>> /\ line[1] \in {"+", "-"}) THEN <<>>
    ELSE
    LET run  == RunLen(line, 2, AmountChars)
        lead == RunLen(line, 2, SpaceChars)
        m2   == IF lead = run THEN SubSeq(line, run + 1, run + 1)
                ELSE SubSeq(line, 2 + lead, run + 1)
        has3 == run + 4 <= Len(line)
                  /\ \A j \in (run + 2)..(run + 4) : IsLatin(line[j])
        m3   == IF has3 THEN SubSeq(line, run + 2, run + 4) ELSE <<>>
        m0   == 1 + run + Len(m3)
        amount == parseFloat(ReplaceFirstComma(StripSpaces(m2)))
    IN  IF run = 0 \/ amount = <<>> THEN <<>>
        ELSE << [type     |-> IF line[1] = "+" THEN "income" ELSE "expense",
                 amount   |-> amount[1],
                 currency |-> toUpperCase(m3),
                 rest     |-> trim(SliceFrom(line, m0)),
                 raw      |-> line] >>

RECURSIVE Flatten(_)
Flatten(ss) == IF ss = <<>> THEN <<>> ELSE Head(ss) \o Flatten(Tail(ss))

\* A variant of quickLines that stops at the first line that is not a
\* signed amount.
quickLinesUntilMiss(text) ==
    LET ls      == SplitLines(text)
        trimmed == [i \in 1..Len(ls) |-> trim(ls[i])]
        kept    == SelectSeq(trimmed, LAMBDA l : l # <<>>)
        misses  == {i \in 1..Len(kept) : MatchLine(kept[i]) = <<>>}
        upto    == IF misses = {} THEN Len(kept) ELSE First(misses) - 1
    IN  Flatten([i \in 1..upto |-> MatchLine(kept[i])])

\* quickLines(text): the provisional lines of a message, in input order.
quickLines(text) ==
    LET ls      == SplitLines(text)
        trimmed == [i \in 1..Len(ls) |-> trim(ls[i])]
        kept    == SelectSeq(trimmed, LAMBDA l : l # <<>>)
    IN  Flatten([i \in 1..Len(kept) |-> MatchLine(kept[i])])

\* ------------------------------------------------------------- AI enrich
\* The parsed content of a classifier answer; "" and <<>> are absent fields.
\* vat_applicable is "true" or "false" for a JSON boolean; anything else is
\* not a boolean.
EmptyData ==
    [amount_type |-> "", vat_applicable |-> "", category |-> "",
     description |-> <<>>]

\* The JSON objects the classifier answers with: every VAT treatment it can
\* ask for (an absent vat_applicable is read as true for both types, an
\* absent amount_type as "unknown"), with categories in and out of the
\* prompt's list, with and without a description.
Datas ==
    {EmptyData,
     [amount_type |-> "net", vat_applicable |-> "true",
      category |-> "services", description |-> <<"s", "i", "t", "e">>],
     [amount_type |-> "gross", vat_applicable |-> "true",
      category |-> "sales", description |-> <<>>],
     [amount_type |-> "net", vat_applicable |-> "false",
      category |-> "tax", description |-> <<>>],
     [amount_type |-> "gross", vat_applicable |-> "false",
      category |-> "groceries", description |-> <<>>],
     [amount_type |-> "unknown", vat_applicable |-> "false",
      category |-> "", description |-> <<>>],
     [amount_type |-> "net", vat_applicable |-> "yes",
      category |-> "", description |-> <<>>]}

\* What the classifier call can come back with: the call rejects (network
\* error, non-2xx status, timeout), the content is not JSON, the content is
\* the JSON literal null, or the content is a JSON object.
Responses ==
    {[kind |-> k, data |-> EmptyData] : k \in {"error", "malformed", "null"}}
      \cup {[kind |-> "json", data |-> d] : d \in Datas}

\* /з\s*пд[вв]/i.test(text)
SaidWithVAT(text) ==
    \E i \in 1..Len(text) :
        /\ ToLowerChar(text[i]) = "ze"
        /\ LET k == i + 1 + RunLen(text, i + 1, SpaceChars)
           IN  /\ k + 2 <= Len(text)
               /\ ToLowerChar(text[k]) = "pe"
               /\ ToLowerChar(text[k + 1]) = "de"
               /\ ToLowerChar(text[k + 2]) = "ve"

\* /без\s*пд[вв]/i.test(text)
SaidWithoutVAT(text) ==
    \E i \in 1..Len(text) :
        /\ i + 2 <= Len(text)
        /\ ToLowerChar(text[i]) = "be"
        /\ ToLowerChar(text[i + 1]) = "ie"
        /\ ToLowerChar(text[i + 2]) = "ze"
        /\ LET k == i + 3 + RunLen(text, i + 3, SpaceChars)
           IN  /\ k + 2 <= Len(text)
               /\ ToLowerChar(text[k]) = "pe"
               /\ ToLowerChar(text[k + 1]) = "de"
               /\ ToLowerChar(text[k + 2]) = "ve"

\* line.raw + " " + line.rest
CueText(line) == line.raw \o <<" ">> \o line.rest

\* A variant of ResolveVAT in which the "with VAT" cue is applied after the
\* "without VAT" cue, and so wins when both match.
ResolveVATWithLast(line, data) ==
    LET at0 == IF data.amount_type # "" THEN data.amount_type ELSE "unknown"
        va0 == IF data.vat_applicable \in {"true", "false"}
               THEN data.vat_applicable ELSE "null"
        at1 == IF SaidWithoutVAT(CueText(line)) THEN "net" ELSE at0
        va1 == IF SaidWithoutVAT(CueText(line)) THEN "false" ELSE va0
        at2 == IF SaidWithVAT(CueText(line)) THEN "gross" ELSE at1
        va2 == IF SaidWithVAT(CueText(line)) THEN "true" ELSE va1
        va3 == IF va2 = "null" THEN "true" ELSE va2
        at3 == IF at2 # "unknown" THEN at2
               ELSE IF line.type = "income" THEN "gross"
               ELSE IF va3 = "true" THEN "gross" ELSE "net"
    IN  [amount_type |-> at3, vat_applicable |-> (va3 = "true")]

\* A variant of ResolveVAT in which the "with VAT" cue sets vat_applicable
\* and leaves the amount_type of the classifier.
ResolveVATCueKeepsType(line, data) ==
    LET at0 == IF data.amount_type # "" THEN data.amount_type ELSE "unknown"
        va0 == IF data.vat_applicable \in {"true", "false"}
               THEN data.vat_applicable ELSE "null"
        va1 == IF SaidWithVAT(CueText(line)) THEN "true" ELSE va0
        at2 == IF SaidWithoutVAT(CueText(line)) THEN "net" ELSE at0
        va2 == IF SaidWithoutVAT(CueText(line)) THEN "false" ELSE va1
        va3 == IF va2 = "null" THEN "true" ELSE va2
        at3 == IF at2 # "unknown" THEN at2
               ELSE IF line.type = "income" THEN "gross"
               ELSE IF va3 = "true" THEN "gross" ELSE "net"
    IN  [amount_type |-> at3, vat_applicable |-> (va3 = "true")]

\* The VAT treatment enrichLineWithAI settles on for a line and a parsed
\* classifier answer: the answer's fields, overridden by the cues of the
\* line, completed by the defaults of the line's type.
ResolveVAT(line, data) ==
    LET at0 == IF data.amount_type # "" THEN data.amount_type ELSE "unknown"
        va0 == IF data.vat_applicable \in {"true", "false"}
               THEN data.vat_applicable ELSE "null"
        at1 == IF SaidWithVAT(CueText(line)) THEN "gross" ELSE at0
        va1 == IF SaidWithVAT(CueText(line)) THEN "true" ELSE va0
        at2 == IF SaidWithoutVAT(CueText(line)) THEN "net" ELSE at1
        va2 == IF SaidWithoutVAT(CueText(line)) THEN "false" ELSE va1
        va3 == IF va2 = "null" THEN "true" ELSE va2
        at3 == IF at2 # "unknown" THEN at2
               ELSE IF line.type = "income" THEN "gross"
               ELSE IF va3 = "true" THEN "gross" ELSE "net"
    IN  [amount_type |-> at3, vat_applicable |-> (va3 = "true")]

\* type === "income" ? vat : 0
vatCollected(type, vat) == IF type = "income" THEN vat ELSE 0

\* A variant of vatDeductible that does not look at the type.
vatDeductibleAnyType(type, vat_applicable, vat) ==
    IF vat_applicable THEN vat ELSE 0

\* type === "expense" && vat_applicable ? vat : 0
vatDeductible(type, vat_applicable, vat) ==
    IF type = "expense" /\ vat_applicable THEN vat ELSE 0

\* enrichLineWithAI(line, defaults) from the parsed classifier answer on, at
\* instant t: the entries it can return (one per outcome of the roundings).
enrichLineWithAI(line, defaults, data, t) ==
    LET vt          == ResolveVAT(line, data)
        vat_rate    == IF vt.vat_applicable THEN defaults.vatRate ELSE 0
        category    == IF data.category # "" THEN data.category ELSE "other"
        description == IF data.description # <<>> THEN data.description
                       ELSE line.rest
        explicit    == IF detectExplicitDate(line.raw) # <<>>
                       THEN detectExplicitDate(line.raw)
                       ELSE detectExplicitDate(line.rest)
        date        == toISO(explicit, t)
        currency    == toUpperCase(IF line.currency # <<>> THEN line.currency
                                   ELSE defaults.currency)
    IN  {[type           |-> line.type,
          category       |-> category,
          description    |-> description,
          date           |-> date,
          currency       |-> currency,
          net            |-> tr.net,
          vat            |-> tr.vat,
          gross          |-> tr.gross,
          vat_collected  |-> vatCollected(line.type, tr.vat),
          vat_deductible |-> vatDeductible(line.type, vt.vat_applicable,
                                           tr.vat)] :
           tr \in computeTriplet(line.amount, vt.amount_type, vat_rate,
                                 vt.vat_applicable)}

\* ------------------------------------------------------------- aggregates
RECURSIVE SumSeq(_)
SumSeq(ns) == IF ns = <<>> THEN 0 ELSE Head(ns) + SumSeq(Tail(ns))

\* The sum of the values of a function.
RECURSIVE SumFn(_)
SumFn(f) ==
    IF DOMAIN f = {} THEN 0
    ELSE LET x == CHOOSE x \in DOMAIN f : TRUE
         IN  f[x] + SumFn([y \in DOMAIN f \ {x} |-> f[y]])

IncGross(e) == IF e.type = "income" THEN e.gross ELSE 0

IncVAT(e) == IF e.type = "income" THEN e.vat_collected ELSE 0

ExpGross(e) == IF e.type = "income" THEN 0 ELSE e.gross

ExpVAT(e) == IF e.type = "income" THEN 0 ELSE e.vat_deductible

\* +x.toFixed(2) of a sum of cents (never half way between two cents)
Cents(c) == CHOOSE x \in toFixed2(c, 100) : TRUE

\* totals(entries), in cents
totals(entries) ==
    LET incGross    == SumSeq([i \in 1..Len(entries) |-> IncGross(entries[i])])
        expGross    == SumSeq([i \in 1..Len(entries) |-> ExpGross(entries[i])])
        incVAT      == SumSeq([i \in 1..Len(entries) |-> IncVAT(entries[i])])
        expVAT      == SumSeq([i \in 1..Len(entries) |-> ExpVAT(entries[i])])
        profitGross == Cents(incGross - expGross)
        vatDue      == Cents(incVAT - expVAT)
    IN  [incGross |-> incGross, expGross |-> expGross, incVAT |-> incVAT,
         expVAT |-> expVAT, profitGross |-> profitGross, vatDue |-> vatDue,
         netAfterVAT |-> Cents(profitGross - vatDue)]

\* A variant of vatTotalsMonth that counts the entries of every month.
vatTotalsMonthAll(entries, yyyymm) == totals(entries)

vatTotalsMonth(entries, yyyymm) ==
    totals(SelectSeq(entries, LAMBDA e : monthOf(e.date) = yyyymm))

vatTotalsYear(entries, yyyy) ==
    totals(SelectSeq(entries, LAMBDA e : yearOf(e.date) = yyyy))

\* ---------------------------------------------------------------- inputs
\* The texts of the messages the webhook receives.
MsgStart == <<"/", "s", "t", "a", "r", "t">>

MsgReset == <<"/", "r", "e", "s", "e", "t">>

MsgBalance == <<"/", "b", "a", "l", "a", "n", "c", "e">>

MsgVatMonth == <<"/", "v", "a", "t", "m", "o", "n", "t", "h">>

MsgVatMonthArg == MsgVatMonth \o <<" ", "2", "0", "2", "4", "-", "1", "2">>

MsgVatMonthBad == MsgVatMonth \o <<" ", "1", "2", ".", "2", "0", "2", "4">>

\* "/vatmonth 2024-13"
MsgVatMonth13 == MsgVatMonth \o <<" ", "2", "0", "2", "4", "-", "1", "3">>

MsgVatYear == <<"/", "v", "a", "t", "y", "e", "a", "r">>

MsgVatYearArg == MsgVatYear \o <<" ", "2", "0", "2", "4">>

MsgVatYearBad == MsgVatYear \o <<" ", "2", "4">>

\* "+1000 eur з ПДВ"
MsgWithVAT ==
    <<"+", "1", "0", "0", "0", " ", "e", "u", "r", " ",
      "ze", " ", "PE", "DE", "VE">>

\* "-200 internet без ПДВ"
MsgWithoutVAT ==
    <<"-", "2", "0", "0", " ", "i", "n", "t", "e", "r", "n", "e", "t", " ",
      "be", "ie", "ze", " ", "PE", "DE", "VE">>

\* "+0.005 без ПДВ" and "-1.005 З ПДВ", two lines
MsgFractions ==
    <<"+", "0", ".", "0", "0", "5", " ", "be", "ie", "ze", " ", "PE", "DE", "VE",
      "LF",
      "-", "1", ".", "0", "0", "5", " ", "ZE", " ", "PE", "DE", "VE">>

\* "-50 кава 2024-13-45"
MsgBadDate ==
    <<"-", "5", "0", " ", "ka", "a_", "ve", "a_", " ",
      "2", "0", "2", "4", "-", "1", "3", "-", "4", "5">>

\* " +100 usd 05.03.2024", "just text", "", "-40,5 ": four lines
MsgMixed ==
    <<" ", "+", "1", "0", "0", " ", "u", "s", "d", " ",
      "0", "5", ".", "0", "3", ".", "2", "0", "2", "4", "LF",
      "j", "u", "s", "t", " ", "t", "e", "x", "t", "LF",
      "LF",
      "-", "4", "0", ",", "5", " ">>

MsgText == <<"j", "u", "s", "t", " ", "t", "e", "x", "t">>

\* "+ ,"
MsgNoAmount == <<"+", " ", ",">>

Texts ==
    {MsgStart, MsgReset, MsgBalance, MsgVatMonth, MsgVatMonthArg,
     MsgVatMonthBad, MsgVatMonth13, MsgVatYear, MsgVatYearArg,
     MsgVatYearBad, MsgWithVAT, MsgWithoutVAT, MsgFractions, MsgBadDate,
     MsgMixed, MsgText, MsgNoAmount, <<>>}

\* The chat ids of the updates.
Chats == {1, 2}

\* The requests being handled at a time: one (the messages of the sessions
\* come one after the other).
Reqs == {1}

\* ------------------------------------------------------------------ state
VARIABLES
    store,   \* chat id -> [entries, settings], for the sessions created
    req,     \* request -> where its handler is suspended, and its locals
    clock    \* the instant of Timeline the server's clock shows

vars == <<store, req, clock>>

NoTotals == totals(<<>>)

NoOut ==
    [kind |-> "", yyyymm |-> <<>>, yyyy |-> <<>>, M |-> NoTotals,
     Y |-> NoTotals]

\* A request slot whose handler is not running; res counts the
\* res.sendStatus(200) calls of the last request handled in the slot. In a
\* running handler text is the trimmed text of the message and calls counts
\* the classifier calls the handler has made.
Idle(res) ==
    [pc |-> "idle", chat |-> 0, text |-> <<>>, lines |-> <<>>,
     added |-> <<>>, calls |-> 0,
     resp |-> [kind |-> "", data |-> EmptyData], out |-> NoOut, res |-> res]

\* store.set(chatId, {entries: [], settings: {currency: "EUR", vatRate: 20}})
NewState ==
    [entries |-> <<>>,
     settings |-> [currency |-> <<"E", "U", "R">>, vatRate |-> 20]]

\* A variant of resetEntries that empties the ledger of every session.
resetAll(st, chatId) == [c \in DOMAIN st |-> [st[c] EXCEPT !.entries = <<>>]]

\* state.entries = []
resetEntries(st, chatId) == [st EXCEPT ![chatId].entries = <<>>]

\* A variant of push that adds at the front (unshift).
pushFront(entries, entry) == <<entry>> \o entries

\* A variant of push that writes over the last entry of the ledger.
pushOverLast(entries, entry) ==
    IF entries = <<>> THEN <<entry>>
    ELSE SubSeq(entries, 1, Len(entries) - 1) \o <<entry>>

\* A variant of push that keeps one copy of equal entries.
pushIfNew(entries, entry) ==
    IF \E i \in DOMAIN entries : entries[i] = entry THEN entries
    ELSE Append(entries, entry)

\* state.entries.push(entry)
push(entries, entry) == Append(entries, entry)

\* A variant of getState whose new session shares the ledger of a session
\* created before it.
getStateShared(st, chatId) ==
    IF chatId \in DOMAIN st THEN st
    ELSE [c \in DOMAIN st \cup {chatId} |->
            IF c # chatId THEN st[c]
            ELSE IF DOMAIN st = {} THEN NewState
            ELSE [NewState EXCEPT
                    !.entries = st[CHOOSE o \in DOMAIN st : TRUE].entries]]

\* getState(chatId): the store after the call
getState(st, chatId) ==
    IF chatId \in DOMAIN st THEN st
    ELSE [c \in DOMAIN st \cup {chatId} |->
            IF c = chatId THEN NewState ELSE st[c]]

Init ==
    /\ store = [c \in {} |-> NewState]
    /\ req = [r \in Reqs |-> Idle(0)]
    /\ clock = 1

\* The current-month and current-year summaries of a ledger at instant t.
Summary(kind, entries, t) ==
    [kind |-> kind, yyyymm |-> LocalMonth(t), yyyy |-> LocalYear(t),
     M |-> vatTotalsMonth(entries, LocalMonth(t)),
     Y |-> vatTotalsYear(entries, LocalYear(t))]

\* \s of the command patterns (the text of a message may hold line feeds)
BlankChars == SpaceChars \cup {"LF"}

\* m[1] of text.match(/^\/vatmonth(?:\s+(\d{4}-\d{2}))?$/i) for a text that
\* starts with "/vatmonth"; <<>> when there is no match or no group.
MonthArg(text) ==
    LET gap == RunLen(text, Len(MsgVatMonth) + 1, BlankChars)
        arg == SliceFrom(text, Len(MsgVatMonth) + gap)
    IN  IF /\ gap >= 1 /\ Len(arg) = 7
           /\ AllDigits(arg, 1, 4) /\ arg[5] = "-" /\ AllDigits(arg, 6, 7)
        THEN arg ELSE <<>>

\* m[1] of text.match(/^\/vatyear(?:\s+(\d{4}))?$/i) for a text that starts
\* with "/vatyear".
YearArg(text) ==
    LET gap == RunLen(text, Len(MsgVatYear) + 1, BlankChars)
        arg == SliceFrom(text, Len(MsgVatYear) + gap)
    IN  IF gap >= 1 /\ Len(arg) = 4 /\ AllDigits(arg, 1, 4)
        THEN arg ELSE <<>>

\* quickLines over the texts of the model, computed once.
Tokenized == [t \in {trim(x) : x \in Texts} |-> quickLines(t)]

\* Entries in the store plus lines the handlers in flight have yet to add.
Load ==
    SumFn([c \in DOMAIN store |-> Len(store[c].entries)])
      + SumFn([r \in DOMAIN req |-> Len(req[r].lines) - Len(req[r].added)])

\* A new request is handled in the first slot that is free.
FirstFree(r) ==
    /\ req[r].pc = "idle"
    /\ \A q \in DOMAIN req : q < r => req[q].pc # "idle"

\* An update without a message: answered at once.
ReceiveOther(r) ==
    /\ FirstFree(r)
    /\ req' = [req EXCEPT ![r] = Idle(1)]
    /\ UNCHANGED <<store, clock>>

\* The handler of an update with a message, from its start to its first
\* await: a command's reply is computed and handed to the chat API; a text
\* with provisional lines starts the classifier call of its first line.
Receive(r, chatId, rawText) ==
    /\ FirstFree(r)
    /\ LET text  == trim(rawText)
           st    == getState(store, chatId)
           state == st[chatId]
           lines == Tokenized[text]
           send(out) == [Idle(0) EXCEPT !.pc = "send", !.chat = chatId,
                                        !.text = text, !.out = out]
       IN  IF text = MsgStart
           THEN /\ store' = st
                /\ req' = [req EXCEPT ![r] = send([NoOut EXCEPT !.kind = "start"])]
           ELSE IF text = MsgReset
           THEN /\ store' = resetEntries(st, chatId)
                /\ req' = [req EXCEPT ![r] = send([NoOut EXCEPT !.kind = "reset"])]
           ELSE IF startsWith(text, MsgBalance)
           THEN /\ store' = st
                /\ req' = [req EXCEPT ![r] =
                             send(Summary("balance", state.entries, clock))]
           ELSE IF startsWith(text, MsgVatMonth)
           THEN LET yyyymm == IF MonthArg(text) # <<>> THEN MonthArg(text)
                              ELSE LocalMonth(clock)
                IN  /\ store' = st
                    /\ req' = [req EXCEPT ![r] =
                                 send([NoOut EXCEPT
                                         !.kind = "vatmonth",
                                         !.yyyymm = yyyymm,
                                         !.M = vatTotalsMonth(state.entries, yyyymm)])]
           ELSE IF startsWith(text, MsgVatYear)
           THEN LET yyyy == IF YearArg(text) # <<>> THEN YearArg(text)
                            ELSE LocalYear(clock)
                IN  /\ store' = st
                    /\ req' = [req EXCEPT ![r] =
                                 send([NoOut EXCEPT
                                         !.kind = "vatyear",
                                         !.yyyy = yyyy,
                                         !.Y = vatTotalsYear(state.entries, yyyy)])]
           ELSE IF lines = <<>>
           THEN /\ store' = st
                /\ req' = [req EXCEPT ![r] = send([NoOut EXCEPT !.kind = "hint"])]
           ELSE /\ store' = st
                /\ req' = [req EXCEPT ![r] =
                             [Idle(0) EXCEPT !.pc = "classify", !.chat = chatId,
                                             !.text = text, !.lines = lines,
                                             !.calls = 1]]
    /\ UNCHANGED clock

\* The classifier call of the current line settles.
ClassifierReply(r, resp) ==
    /\ req[r].pc = "classify"
    /\ req' = [req EXCEPT ![r].pc = "classified", ![r].resp = resp]
    /\ UNCHANGED <<store, clock>>

\* A variant of Resume that calls the classifier again for a line whose
\* call was rejected.
ResumeRetry(r) ==
    /\ req[r].pc = "classified"
    /\ LET q     == req[r]
           state == store[q.chat]
           line  == q.lines[Len(q.added) + 1]
           data  == q.resp.data
       IN  IF q.resp.kind = "error" /\ q.calls <= Len(q.lines)
           THEN /\ req' = [req EXCEPT ![r].pc = "classify",
                                      ![r].calls = q.calls + 1,
                                      ![r].resp = Idle(0).resp]
                /\ UNCHANGED store
           ELSE IF q.resp.kind \in {"error", "null"}
           THEN /\ req' = [req EXCEPT ![r] = Idle(1)]
                /\ UNCHANGED store
           ELSE \E entry \in enrichLineWithAI(line, state.settings, data, clock) :
                  LET entries == push(state.entries, entry)
                      added   == push(q.added, entry)
                  IN  /\ store' = [store EXCEPT ![q.chat].entries = entries]
                      /\ req' = [req EXCEPT ![r] =
                           IF Len(added) < Len(q.lines)
                           THEN [q EXCEPT !.pc = "classify", !.added = added,
                                          !.calls = q.calls + 1,
                                          !.resp = Idle(0).resp]
                           ELSE [q EXCEPT !.pc = "send", !.added = added,
                                          !.resp = Idle(0).resp,
                                          !.out = Summary("added", entries, clock)]]
    /\ UNCHANGED clock

\* A variant of Resume that pushes onto the array the handler saw before a
\* reset and puts it back as the ledger of the session.
ResumeStale(r) ==
    /\ req[r].pc = "classified"
    /\ LET q     == req[r]
           state == store[q.chat]
           line  == q.lines[Len(q.added) + 1]
           data  == q.resp.data
       IN  IF q.resp.kind \in {"error", "null"}
           THEN /\ req' = [req EXCEPT ![r] = Idle(1)]
                /\ UNCHANGED store
           ELSE \E entry \in enrichLineWithAI(line, state.settings, data, clock) :
                  LET held    == IF Len(state.entries) < Len(q.added)
                                 THEN q.added ELSE state.entries
                      entries == push(held, entry)
                      added   == push(q.added, entry)
                  IN  /\ store' = [store EXCEPT ![q.chat].entries = entries]
                      /\ req' = [req EXCEPT ![r] =
                           IF Len(added) < Len(q.lines)
                           THEN [q EXCEPT !.pc = "classify", !.added = added,
                                          !.calls = q.calls + 1,
                                          !.resp = Idle(0).resp]
                           ELSE [q EXCEPT !.pc = "send", !.added = added,
                                          !.resp = Idle(0).resp,
                                          !.out = Summary("added", entries, clock)]]
    /\ UNCHANGED clock

\* The handler resumes after the classifier call of line Len(added) + 1. A
\* rejected call, or an answer whose content is null, throws to the
\* handler's catch, which answers the request. Otherwise the entry is built
\* and pushed, and the handler goes on to the next line, or computes the
\* summaries and hands its reply to the chat API.
Resume(r) ==
    /\ req[r].pc = "classified"
    /\ LET q     == req[r]
           state == store[q.chat]
           line  == q.lines[Len(q.added) + 1]
           data  == q.resp.data
       IN  IF q.resp.kind \in {"error", "null"}
           THEN /\ req' = [req EXCEPT ![r] = Idle(1)]
                /\ UNCHANGED store
           ELSE \E entry \in enrichLineWithAI(line, state.settings, data, clock) :
                  LET entries == push(state.entries, entry)
                      added   == push(q.added, entry)
                  IN  /\ store' = [store EXCEPT ![q.chat].entries = entries]
                      /\ req' = [req EXCEPT ![r] =
                           IF Len(added) < Len(q.lines)
                           THEN [q EXCEPT !.pc = "classify", !.added = added,
                                          !.calls = q.calls + 1,
                                          !.resp = Idle(0).resp]
                           ELSE [q EXCEPT !.pc = "send", !.added = added,
                                          !.resp = Idle(0).resp,
                                          !.out = Summary("added", entries, clock)]]
    /\ UNCHANGED clock

\* The sendMessage call to the chat API settles, delivered or not: either
\* way the handler answers the request (from its body or from its catch).
TgReply(r, delivered) ==
    /\ req[r].pc = "send"
    /\ req' = [req EXCEPT ![r] = Idle(req[r].res + 1)]
    /\ UNCHANGED <<store, clock>>

\* Time passes.
Tick ==
    /\ clock < Len(Timeline)
    /\ clock' = clock + 1
    /\ UNCHANGED <<store, req>>

\* The store has room for the entries of a message.
Room(rawText) == Load + Len(Tokenized[trim(rawText)]) <= MaxLedger

Next ==
    \/ \E r \in DOMAIN req : ReceiveOther(r)
    \/ \E r \in DOMAIN req, c \in Chats, t \in Texts :
          Room(t) /\ Receive(r, c, t)
    \/ \E r \in DOMAIN req, resp \in Responses : ClassifierReply(r, resp)
    \/ \E r \in DOMAIN req : Resume(r)
    \/ \E r \in DOMAIN req, ok \in BOOLEAN : TgReply(r, ok)
    \/ Tick

Spec == Init /\ [][Next]_vars

\* ------------------------------------------------------------- properties
\* The handler of request r is between its first classifier call and its
\* answer: lines holds its provisional lines and added the entries built.
Ingesting(r) == req[r].pc # "idle" /\ req[r].lines # <<>>

\* Request r takes the step that resumes its handler after a classifier
\* call.
Resumes(r) == req[r].pc = "classified" /\ req'[r] # req[r]

\* The line whose classifier call request r is waiting for or resuming from.
CurrentLine(r) == req[r].lines[Len(req[r].added) + 1]

\* The ledger of the session request r works on.
LedgerOf(r) == store[req[r].chat].entries

\* C1: when the classifier call of a line is rejected or its content is not
\* JSON, the handler still appends the entry built from the cues and the
\* defaults (the classifier's fields all absent): the line is not dropped.
C1_FailureKeepsLine ==
    [][\A r \in DOMAIN req :
         Resumes(r) /\ req[r].resp.kind \in {"error", "malformed"}
           => \E e \in enrichLineWithAI(CurrentLine(r),
                                        store[req[r].chat].settings,
                                        EmptyData, clock) :
                store'[req[r].chat].entries = Append(LedgerOf(r), e)]_vars

\* The entries request r has added are the last entries of the ledger.
AddedInOrder(r) ==
    LET n == Len(req[r].added)
        l == Len(LedgerOf(r))
    IN  /\ n <= Len(req[r].lines) /\ n <= l
        /\ SubSeq(LedgerOf(r), l - n + 1, l) = req[r].added

\* C2: the lines of a message are processed one at a time, in input order:
\* each resumption either appends the entry of the next line at the end of
\* the ledger, or fails and leaves the store as it is, so that the ledger
\* is the ledger before the message followed by the entries of the lines
\* before the failing one, in order.
C2_LinesInOrder ==
    [][\A r \in DOMAIN req :
         /\ Ingesting(r)' => AddedInOrder(r)'
         /\ req[r].pc = "classify" => store' = store
         /\ Resumes(r) =>
              IF req'[r].pc = "idle"
              THEN store' = store
              ELSE \E e \in enrichLineWithAI(CurrentLine(r),
                                             store[req[r].chat].settings,
                                             req[r].resp.data, clock) :
                     /\ store'[req[r].chat].entries = Append(LedgerOf(r), e)
                     /\ req'[r].added = Append(req[r].added, e)
                     /\ req'[r].lines = req[r].lines]_vars

\* The classifier call of the second line of a message has been rejected
\* after the entry of its first line was appended.
C2_Witness ==
    \E r \in DOMAIN req :
        /\ req[r].pc = "classified" /\ req[r].resp.kind = "error"
        /\ Len(req[r].added) = 1 /\ LedgerOf(r) = req[r].added

\* The pairs <<line, entry>> of the requests in flight: entry was built from
\* line.
Built ==
    UNION {{<<req[r].lines[i], req[r].added[i]>> : i \in 1..Len(req[r].added)} :
             r \in DOMAIN req}

\* The entries of all ledgers.
AllEntries ==
    UNION {{store[c].entries[i] : i \in 1..Len(store[c].entries)} :
             c \in DOMAIN store}

\* The session's VAT rate (settings are set when a session is created).
Rate == NewState.settings.vatRate

\* One cent, in the units typed amounts are counted in.
Cent == Scale \div 100

\* Whatever the classifier answers, the line is treated as amount_type at
\* and vat_applicable va.
AlwaysResolved(line, at, va) ==
    \A resp \in Responses :
        ResolveVAT(line, resp.data) = [amount_type |-> at, vat_applicable |-> va]

\* C3 as stated: for a line with the "without VAT" cue the entry has
\* vat_applicable = false and amount_type = net whatever the classifier
\* answers: vat = 0, net = gross = the typed amount, and no VAT collected or
\* deductible.
C3_Original ==
    \A p \in Built :
        SaidWithoutVAT(CueText(p[1])) =>
            /\ AlwaysResolved(p[1], "net", FALSE)
            /\ p[2].vat = 0
            /\ p[2].net * Cent = p[1].amount /\ p[2].gross * Cent = p[1].amount
            /\ p[2].vat_collected = 0 /\ p[2].vat_deductible = 0

\* C3 (amended): for a line with the "without VAT" cue, whatever the
\* classifier answers and although the "with VAT" pattern matches the line
\* too, the entry has vat_applicable = false and amount_type = net: vat = 0,
\* net = gross = the typed amount rounded to two decimals, and no VAT
\* collected or deductible.
C3_WithoutVATCue ==
    \A p \in Built :
        SaidWithoutVAT(CueText(p[1])) =>
            /\ AlwaysResolved(p[1], "net", FALSE)
            /\ p[2].vat = 0
            /\ p[2].net \in toFixed2(p[1].amount, Scale)
            /\ p[2].gross = p[2].net
            /\ p[2].vat_collected = 0 /\ p[2].vat_deductible = 0

\* An entry was built from a line that matches both cue patterns, for a
\* classifier answer of gross and vat_applicable = true (the answer whose
\* category is sales).
C3_Witness ==
    \E p \in Built :
        /\ SaidWithoutVAT(CueText(p[1])) /\ SaidWithVAT(CueText(p[1]))
        /\ p[2].category = "sales" /\ p[2].gross # 0

\* C4 as stated: for a line with the "with VAT" cue and without the
\* "without VAT" cue the entry is computed as vat_applicable = true and
\* amount_type = gross: gross = the typed amount,
\* net = round2(amount / (1 + rate/100)), vat = gross - net.
C4_Original ==
    \A p \in Built :
        SaidWithVAT(CueText(p[1])) /\ ~SaidWithoutVAT(CueText(p[1])) =>
            /\ AlwaysResolved(p[1], "gross", TRUE)
            /\ p[2].gross * Cent = p[1].amount
            /\ p[2].net \in toFixed2(100 * p[1].amount, Scale * (100 + Rate))
            /\ p[2].vat = p[2].gross - p[2].net

\* C4 (amended): for a line with the "with VAT" cue and without the
\* "without VAT" cue, whatever the classifier answers, the entry is computed
\* as vat_applicable = true and amount_type = gross at the session rate:
\* gross = the typed amount rounded to two decimals,
\* net = round2(amount / (1 + rate/100)), vat = round2(amount - net), which
\* is gross - net, with gross the typed amount, when the amount is typed
\* with at most two decimals; "+1000 eur" with the cue at 20% gives an
\* income entry with gross 1000.00, vat 166.67 and net 833.33.
C4_WithVATCue ==
    \A p \in Built :
        SaidWithVAT(CueText(p[1])) /\ ~SaidWithoutVAT(CueText(p[1])) =>
            /\ AlwaysResolved(p[1], "gross", TRUE)
            /\ p[2].gross \in toFixed2(p[1].amount, Scale)
            /\ p[2].net \in toFixed2(100 * p[1].amount, Scale * (100 + Rate))
            /\ p[2].vat \in toFixed2(100 * p[1].amount - Scale * p[2].net,
                                     100 * Scale)
            /\ p[1].amount % Cent = 0 =>
                 /\ p[2].gross * Cent = p[1].amount
                 /\ p[2].vat = p[2].gross - p[2].net
            /\ p[1].raw = MsgWithVAT =>
                 /\ p[2].type = "income" /\ p[2].gross = 100000
                 /\ p[2].vat = 16667 /\ p[2].net = 83333

\* The entry of "+1000 eur" with the cue was built for a classifier answer
\* of net and vat_applicable = false (the answer whose category is tax).
C4_Witness ==
    \E p \in Built :
        /\ p[1].raw = MsgWithVAT /\ p[2].category = "tax"
        /\ p[2].vat = 16667

\* C5: every entry of every ledger has gross = net + vat within 0.01.
C5_GrossIsNetPlusVat ==
    \A e \in AllEntries :
        /\ e.gross - (e.net + e.vat) <= 1
        /\ (e.net + e.vat) - e.gross <= 1

\* A ledger holds an entry with VAT whose gross is not exactly net + vat
\* (an amount typed with three decimals).
C5_Witness ==
    \E e \in AllEntries : e.vat # 0 /\ e.gross # e.net + e.vat

\* C6: in every ledger entry vat_collected and vat_deductible are never
\* both nonzero, vat_collected is nonzero only for an income, and
\* vat_deductible is nonzero only for an expense to which VAT was applicable
\* (as settled when the entry was built).
C6_VatBuckets ==
    [][/\ \A e \in AllEntries' :
            /\ ~(e.vat_collected # 0 /\ e.vat_deductible # 0)
            /\ e.vat_collected # 0 => e.type = "income"
            /\ e.vat_deductible # 0 => e.type = "expense"
       /\ \A r \in DOMAIN req :
            Resumes(r) /\ req'[r].pc # "idle" =>
              LET e == req'[r].added[Len(req'[r].added)]
              IN  e.vat_deductible # 0 =>
                    ResolveVAT(CurrentLine(r), req[r].resp.data).vat_applicable
      ]_vars

\* A ledger holds an income with VAT collected and an expense with VAT
\* deductible.
C6_Witness ==
    \E c \in DOMAIN store :
        /\ \E e \in AllEntries : e.type = "income" /\ e.vat_collected # 0
        /\ \E i \in 1..Len(store[c].entries) :
             /\ store[c].entries[i].type = "expense"
             /\ store[c].entries[i].vat_deductible # 0

\* Request r takes the first step of the handler of a reset command.
Resets(r) ==
    req[r].pc = "idle" /\ req'[r].pc = "send" /\ req'[r].out.kind = "reset"

\* C7: the reset command leaves the ledger of its session empty and the
\* settings of the session as they were, and leaves every other session as
\* it was.
C7_ResetFrame ==
    [][\A r \in DOMAIN req :
         Resets(r) =>
           LET c == req'[r].chat
           IN  /\ DOMAIN store' = DOMAIN store \cup {c}
               /\ store'[c].entries = <<>>
               /\ c \in DOMAIN store => store'[c].settings = store[c].settings
               /\ \A o \in DOMAIN store \ {c} : store'[o] = store[o]]_vars

\* A reset has been handled for a session whose ledger is now empty while
\* another session holds entries.
C7_Witness ==
    \E r \in DOMAIN req :
        /\ req[r].pc = "send" /\ req[r].out.kind = "reset"
        /\ store[req[r].chat].entries = <<>>
        /\ \E o \in DOMAIN store \ {req[r].chat} : store[o].entries # <<>>

\* The twelve months of year yyyy, as YYYY-MM.
MonthsOfYear(yyyy) == {yyyy \o <<"-">> \o Pad2(m) : m \in 1..12}

\* The sum of the monthly vatDue over the months of year yyyy.
MonthlyVatDue(entries, yyyy) ==
    LET ms == MonthsOfYear(yyyy)
    IN  SumFn([m \in ms |-> vatTotalsMonth(entries, m).vatDue])

\* C8: for every ledger and every year, the monthly vatDue of the twelve
\* months of the year add up to the yearly vatDue.
C8_MonthsAddUpToYear ==
    \A c \in DOMAIN store :
        \A e \in AllEntries :
            MonthlyVatDue(store[c].entries, yearOf(e.date))
              = vatTotalsYear(store[c].entries, yearOf(e.date)).vatDue

\* The days of month m of year y.
DaysIn(y, m) ==
    IF m \in {4, 6, 9, 11} THEN 30
    ELSE IF m # 2 THEN 31
    ELSE IF (y % 4 = 0 /\ y % 100 # 0) \/ y % 400 = 0 THEN 29
    ELSE 28

\* A YYYY-MM-DD string that denotes a day of the calendar.
IsCalendarDate(d) ==
    /\ IsIsoShape(d)
    /\ LET y   == DecVal(SubSeq(d, 1, 4))
           m   == DecVal(SubSeq(d, 6, 7))
           day == DecVal(SubSeq(d, 9, 10))
       IN  m \in 1..12 /\ day >= 1 /\ day <= DaysIn(y, m)

\* C9: the date of every entry is a YYYY-MM-DD string that denotes a real
\* calendar day.
C9_DatesAreCalendarDays == \A e \in AllEntries : IsCalendarDate(e.date)

\* The categories of the classifier prompt.
Categories ==
    {"sales", "services", "hardware", "software", "rent", "transport",
     "internet", "tax", "other"}

KeptLines(text) ==
    LET ls      == SplitLines(text)
        trimmed == [i \in 1..Len(ls) |-> trim(ls[i])]
    IN  SelectSeq(trimmed, LAMBDA l : l # <<>>)

\* The line is a sign followed by separators and blanks only: it has an
\* amount token, and the token is not a number.
SignThenSeparators(line) ==
    /\ Len(line) >= 2
    /\ line[1] \in {"+", "-"}
    /\ \A j \in 2..Len(line) : line[j] \in SpaceChars \cup {".", ","}

\* C11: a signed line whose amount token cannot be parsed as a number is
\* kept as a provisional line of amount 0, so that an entry with
\* net = vat = gross = 0 is appended for it.
C11_UnparsedAmountIsZero ==
    \A r \in DOMAIN req :
        req[r].pc # "idle" =>
            \A i \in DOMAIN KeptLines(req[r].text) :
                SignThenSeparators(KeptLines(req[r].text)[i]) =>
                    \E j \in DOMAIN req[r].lines :
                        /\ req[r].lines[j].raw = KeptLines(req[r].text)[i]
                        /\ req[r].lines[j].amount = 0

\* The word of Latin letters that follows the sign and the amount token of
\* a line; <<>> when something else follows them.
WordAfterAmount(line) ==
    LET run == RunLen(line, 2, AmountChars)
        w   == RunLen(line, run + 2, LowerLatin \cup UpperLatin)
    IN  SubSeq(line, run + 2, run + 1 + w)

\* C12: when the text after the amount starts with a word that is not
\* exactly three letters long, the provisional line has no currency, its
\* free text starts with the whole word, and the entry built from it has
\* the session's default currency.
C12_CurrencyOnlyFromThreeLetterToken ==
    \A r \in DOMAIN req :
        \A j \in DOMAIN req[r].lines :
            LET l == req[r].lines[j]
                w == WordAfterAmount(l.raw)
            IN  Len(w) \notin {0, 3} =>
                    /\ l.currency = <<>>
                    /\ startsWith(l.rest, w)
                    /\ j <= Len(req[r].added) =>
                           req[r].added[j].currency
                             = store[req[r].chat].settings.currency

\* The line is a sign followed by a number: after the sign and optional
\* blanks comes a digit, or one separator (a dot or a comma) and then,
\* after optional blanks, a digit.
IsSignedAmount(line) ==
    /\ line # <<>>
    /\ line[1] \in {"+", "-"}
    /\ LET i == 2 + RunLen(line, 2, SpaceChars)
           k == i + 1 + RunLen(line, i + 1, SpaceChars)
       IN  /\ i <= Len(line)
           /\ \/ IsDigit(line[i])
              \/ /\ line[i] \in {".", ","}
                 /\ k <= Len(line)
                 /\ IsDigit(line[k])

\* The text is one of the commands of the webhook.
IsCommand(text) ==
    \/ text \in {MsgStart, MsgReset}
    \/ startsWith(text, MsgBalance)
    \/ startsWith(text, MsgVatMonth)
    \/ startsWith(text, MsgVatYear)

\* The lines of a message text that are signed amounts, in input order.
SignedLines(text) ==
    SelectSeq(KeptLines(text), LAMBDA l : IsSignedAmount(l))

\* Request r starts handling an update with a message.
Starts(r) == req[r].pc = "idle" /\ req'[r].pc # "idle"

\* C13: a line that is not a signed amount produces no entry and no error.
\* A message that is not a command and has no signed-amount line leaves
\* every ledger as it was, makes no classifier call and is answered with
\* the format hint; in a message that has some, the provisional lines are
\* exactly its signed-amount lines in their input order, the entries the
\* handler has added are those of the first of them, in that order, and a
\* handler that reaches its reply has added one entry for each of them.
C13_UnmatchedLinesAreSkipped ==
    [][\A r \in DOMAIN req :
          /\ (Starts(r) /\ ~IsCommand(req'[r].text)) =>
                LET q        == req'[r]
                    matching == SignedLines(q.text)
                IN  /\ [j \in DOMAIN q.lines |-> q.lines[j].raw] = matching
                    /\ matching = <<>> =>
                          /\ q.pc = "send" /\ q.out.kind = "hint"
                          /\ q.calls = 0
                          /\ store' = getState(store, q.chat)
                    /\ matching # <<>> => q.pc = "classify"
          /\ LET q == req'[r]
             IN  /\ Len(q.added) <= Len(q.lines)
                 /\ \A j \in DOMAIN q.added :
                       q.added[j].type = q.lines[j].type
                 /\ q.pc = "send" =>
                       /\ Len(q.added) = Len(q.lines)
                       /\ q.lines = <<>> => q.calls = 0]_vars

\* A message mixing signed-amount lines with other lines has been ingested:
\* its two signed lines each produced an entry, its other line none.
C13_Witness ==
    \E r \in DOMAIN req :
        /\ req[r].pc = "send" /\ req[r].out.kind = "added"
        /\ Len(KeptLines(req[r].text)) > Len(req[r].lines)
        /\ Len(req[r].added) = 2
        /\ store[req[r].chat].entries = req[r].added

\* The argument of a query command: the text that follows the command
\* name, less its leading blanks.
QueryArg(text, command) == TrimLeft(SliceFrom(text, Len(command)))

\* The command name of the text is set off from its argument by a blank.
ArgSetOff(text, command) ==
    Len(text) > Len(command) /\ text[Len(command) + 1] \in BlankChars

\* A valid YYYY-MM: four digits, a dash, and a month from 01 to 12.
IsYearMonth(arg) ==
    /\ Len(arg) = 7
    /\ AllDigits(arg, 1, 4) /\ arg[5] = "-" /\ AllDigits(arg, 6, 7)
    /\ DecVal(SubSeq(arg, 6, 7)) \in 1..12

\* A valid YYYY: four digits.
IsYear(arg) == Len(arg) = 4 /\ AllDigits(arg, 1, 4)

\* C14: a month query is answered, without failing, with the totals of the
\* month of its argument when the argument is a valid YYYY-MM, and with the
\* totals of the current month when there is no argument or the argument
\* is malformed; a year query likewise with YYYY and the current year.
C14_PeriodOfQuery ==
    [][\A r \in DOMAIN req :
          Starts(r) =>
            LET q       == req'[r]
                entries == getState(store, q.chat)[q.chat].entries
                marg    == QueryArg(q.text, MsgVatMonth)
                yarg    == QueryArg(q.text, MsgVatYear)
                yyyymm  == IF ArgSetOff(q.text, MsgVatMonth) /\ IsYearMonth(marg)
                           THEN marg ELSE LocalMonth(clock)
                yyyy    == IF ArgSetOff(q.text, MsgVatYear) /\ IsYear(yarg)
                           THEN yarg ELSE LocalYear(clock)
            IN  /\ startsWith(q.text, MsgVatMonth) =>
                      /\ q.pc = "send" /\ q.out.kind = "vatmonth"
                      /\ q.out.yyyymm = yyyymm
                      /\ q.out.M = vatTotalsMonth(entries, yyyymm)
                /\ startsWith(q.text, MsgVatYear) =>
                      /\ q.pc = "send" /\ q.out.kind = "vatyear"
                      /\ q.out.yyyy = yyyy
                      /\ q.out.Y = vatTotalsYear(entries, yyyy)]_vars

\* ------------------------------------------------- concurrent requests
\* The webhook handles a second update while the handler of a first is
\* suspended in a call: two requests in flight, a few messages.
ConcReqs == {1, 2}

ConcTexts == {MsgReset, MsgBalance, MsgWithVAT, MsgFractions}

ConcResponses ==
    {resp \in Responses :
        resp.data = EmptyData /\ resp.kind \in {"error", "json"}}

ConcInit ==
    /\ store = [c \in {} |-> NewState]
    /\ req = [r \in ConcReqs |-> Idle(0)]
    /\ clock = 1

ConcNext ==
    \/ \E r \in DOMAIN req : ReceiveOther(r)
    \/ \E r \in DOMAIN req, c \in Chats, t \in ConcTexts :
          Room(t) /\ Receive(r, c, t)
    \/ \E r \in DOMAIN req, resp \in ConcResponses : ClassifierReply(r, resp)
    \/ \E r \in DOMAIN req : Resume(r)
    \/ \E r \in DOMAIN req, ok \in BOOLEAN : TgReply(r, ok)
    \/ Tick

ConcSpec == ConcInit /\ [][ConcNext]_vars

\* The step is one of a handler working for session c.
StepOf(c) ==
    \E r \in DOMAIN req :
        req'[r] # req[r] /\ (req[r].chat = c \/ req'[r].chat = c)

\* C15: sessions are isolated under every interleaving of requests. A step
\* changes the ledger or the settings of a session only when it is a step
\* of a handler working for that session, a session is created with its
\* own empty ledger and the default settings whatever the other sessions
\* hold, and the settings of a session never change.
C15_SessionsIsolated ==
    [][/\ \A c \in DOMAIN store :
             /\ c \in DOMAIN store'
             /\ store'[c].settings = store[c].settings
             /\ store'[c] # store[c] => StepOf(c)
       /\ \A c \in DOMAIN store' \ DOMAIN store :
             store'[c] = NewState /\ StepOf(c)]_vars

\* Two handlers are in flight for different sessions: one has pushed its
\* entry and waits for the chat API while the other is still suspended in
\* its classifier call, its session's ledger empty.
C15_Witness ==
    \E r, q \in DOMAIN req :
        /\ req[r].pc = "send" /\ Len(req[r].added) = 1
        /\ req[q].pc \in {"classify", "classified"}
        /\ req[r].chat # req[q].chat
        /\ store[req[r].chat].entries = req[r].added
        /\ store[req[q].chat].entries = <<>>

\* C16: the classifier is called at most once per provisional line and
\* never again after a call that failed. The calls a handler has made
\* never outnumber its lines; a handler makes a call only when it starts
\* on its first line or has pushed the entry of the line before, so that
\* call number n is the call for line n; and a handler resumed from a
\* rejected call or a null answer makes no further call.
C16_OneCallPerLine ==
    [][\A r \in DOMAIN req :
          LET q == req[r]
              n == req'[r]
          IN  /\ n.calls <= Len(n.lines)
              /\ n.pc \in {"classify", "classified"} =>
                    n.calls = Len(n.added) + 1
              /\ n.calls # q.calls =>
                    \/ n.pc = "idle" /\ n.calls = 0
                    \/ Starts(r) /\ n.calls = 1
                    \/ /\ Resumes(r) /\ n.calls = q.calls + 1
                       /\ Len(n.added) = Len(q.added) + 1
                       /\ q.resp.kind \notin {"error", "null"}
              /\ (Resumes(r) /\ q.resp.kind \in {"error", "null"}) =>
                    n.pc = "idle"]_vars

\* The second and last line of a message: its classifier call, the second
\* of the handler, has come back rejected or with content that is not JSON.
C16_Witness ==
    \E r \in DOMAIN req :
        /\ req[r].pc = "classified"
        /\ req[r].resp.kind \in {"error", "malformed"}
        /\ Len(req[r].lines) = 2 /\ req[r].calls = 2

\* Sequence a is a prefix of sequence b.
IsPrefix(a, b) == Len(a) <= Len(b) /\ SubSeq(b, 1, Len(a)) = a

\* The step is the start of a handler that resets session c.
ResetOf(c) ==
    \E r \in DOMAIN req :
        Starts(r) /\ req'[r].text = MsgReset /\ req'[r].chat = c

\* C17: ledgers are append-only between resets. In every step, under every
\* interleaving of two handlers, the ledger a session had is a prefix of
\* the ledger it has next, unless the step is a reset of that session,
\* which empties the ledger.
C17_AppendOnly ==
    [][\A c \in DOMAIN store :
          \/ IsPrefix(store[c].entries, store'[c].entries)
          \/ ResetOf(c) /\ store'[c].entries = <<>>]_vars

\* A handler has pushed the entry of its line after the entry an earlier
\* message left in the ledger of the session.
C17_Witness ==
    \E r \in DOMAIN req :
        /\ req[r].pc = "send" /\ Len(req[r].added) = 1
        /\ Len(LedgerOf(r)) = 2
        /\ LedgerOf(r)[2] = req[r].added[1]

\* What entry e adds to the totals of a period: its gross and VAT on the
\* income or the expense side when its date starts with the period, nothing
\* otherwise.
Share(e, period) ==
    LET hit == startsWith(e.date, period)
        inc == hit /\ e.type = "income"
        exp == hit /\ e.type # "income"
    IN  [incGross |-> IF inc THEN e.gross ELSE 0,
         incVAT   |-> IF inc THEN e.vat_collected ELSE 0,
         expGross |-> IF exp THEN e.gross ELSE 0,
         expVAT   |-> IF exp THEN e.vat_deductible ELSE 0]

\* The totals of a period in which every entry of the ledger counts once.
PeriodTotals(entries, period) ==
    LET part(i)  == Share(entries[i], period)
        incGross == SumSeq([i \in 1..Len(entries) |-> part(i).incGross])
        expGross == SumSeq([i \in 1..Len(entries) |-> part(i).expGross])
        incVAT   == SumSeq([i \in 1..Len(entries) |-> part(i).incVAT])
        expVAT   == SumSeq([i \in 1..Len(entries) |-> part(i).expVAT])
    IN  [incGross |-> incGross, expGross |-> expGross, incVAT |-> incVAT,
         expVAT |-> expVAT, profitGross |-> incGross - expGross,
         vatDue |-> incVAT - expVAT,
         netAfterVAT |-> (incGross - expGross) - (incVAT - expVAT)]

\* The kinds of reply of the balance, month and year queries.
QueryKinds == {"balance", "vatmonth", "vatyear"}

\* C18: balance, month and year queries are stateless. The handler of a
\* query leaves the ledger and the settings of its session as they were
\* (a session not seen before is created empty), from its start to its
\* answer; the totals it replies with are those of the ledger and the
\* period alone, every entry counted once in a period its date starts with
\* and not at all otherwise, so that the same query on the same ledger
\* gives the same totals.
C18_QueriesStateless ==
    [][\A r \in DOMAIN req :
          /\ (Starts(r) /\ req'[r].out.kind \in QueryKinds) =>
                LET q       == req'[r]
                    entries == store'[q.chat].entries
                IN  /\ store' = getState(store, q.chat)
                    /\ q.out.kind \in {"balance", "vatmonth"} =>
                          q.out.M = PeriodTotals(entries, q.out.yyyymm)
                    /\ q.out.kind \in {"balance", "vatyear"} =>
                          q.out.Y = PeriodTotals(entries, q.out.yyyy)
          /\ (req[r].out.kind \in QueryKinds /\ req'[r] # req[r]) =>
                store' = store]_vars

\* A month query is being answered for a ledger that holds an entry of the
\* month asked for and an entry of another month.
C18_Witness ==
    \E r \in DOMAIN req :
        /\ req[r].pc = "send" /\ req[r].out.kind = "vatmonth"
        /\ \E i, j \in DOMAIN LedgerOf(r) :
              /\ monthOf(LedgerOf(r)[i].date) = req[r].out.yyyymm
              /\ monthOf(LedgerOf(r)[j].date) # req[r].out.yyyymm
        /\ req[r].out.M.incGross + req[r].out.M.expGross > 0

\* The positive VAT rates of the round-trip law, in percent: the rate of
\* the sessions and rates around it.
Rates == {1, 7, Rate, 25}

\* gross / (1 + rate/100) is within 0.01 of the net amount given (amount is
\* in 1/Scale units, gross in cents).
NetRecovered(amount, rate, gross) ==
    LET back == gross * Scale - amount * (100 + rate)
        mag  == IF back < 0 THEN -back ELSE back
    IN  mag <= (Scale \div 100) * (100 + rate)

\* C19: round-trip law. For the amount of every provisional line and every
\* positive rate, each triplet computeTriplet gives for the amount taken as
\* net with VAT applicable has a gross from which gross / (1 + rate/100)
\* recovers the amount within 0.01; the net of the triplet is the amount
\* itself when the amount has at most two decimals.
C19_NetRoundTrip ==
    \A r \in DOMAIN req :
        \A j \in DOMAIN req[r].lines :
            \A rate \in Rates :
                LET amount == req[r].lines[j].amount
                IN  \A t \in computeTriplet(amount, "net", rate, TRUE) :
                        /\ NetRecovered(amount, rate, t.gross)
                        /\ amount % (Scale \div 100) = 0 =>
                              t.net * (Scale \div 100) = amount

\* An entry has been built from a line whose amount the classifier called
\* net, with VAT applicable: its net is the amount typed, its VAT is
\* positive and its gross is their sum.
C19_Witness ==
    \E r \in DOMAIN req :
        \E j \in DOMAIN req[r].added :
            LET e == req[r].added[j]
            IN  /\ e.net * (Scale \div 100) = req[r].lines[j].amount
                /\ e.vat > 0
                /\ e.gross = e.net + e.vat
                /\ NetRecovered(req[r].lines[j].amount, Rate, e.gross)

\* ------------------------------------------------------------- progress
\* What the code guarantees of the calls a handler awaits. The classifier
\* call is made with a timeout of 20 s, so it settles; a handler whose call
\* has settled is resumed by the event loop. The sendMessage call to the
\* chat API is an axios.post without a timeout: nothing makes it settle.
Fairness ==
    /\ WF_vars(\E r \in DOMAIN req, resp \in Responses :
                  ClassifierReply(r, resp))
    /\ WF_vars(\E r \in DOMAIN req : Resume(r))

LiveSpec == Init /\ [][Next]_vars /\ Fairness

\* C20: every webhook request is eventually answered with exactly one
\* HTTP 200: a handler that is running eventually ends having called
\* res.sendStatus(200) once.
C20_EveryRequestAnswered ==
    \A r \in Reqs :
        [](req[r].pc # "idle" => <>(req[r].pc = "idle" /\ req[r].res = 1))

\* ------------------------------------------ concurrent requests, one session
\* Two requests of the same session in flight: a reset, a message of one
\* line and a message of two lines among other text, with room in the
\* ledger for a message of each kind.
SessChats == {1}

SessTexts == {MsgReset, MsgWithVAT, MsgMixed}

\* The store has room for the entries of a message.
SessRoom(rawText) ==
    Load + Len(Tokenized[trim(rawText)]) <= SessMaxLedger

SessNext ==
    \/ \E r \in DOMAIN req, c \in SessChats, t \in SessTexts :
          SessRoom(t) /\ Receive(r, c, t)
    \/ \E r \in DOMAIN req, resp \in ConcResponses : ClassifierReply(r, resp)
    \/ \E r \in DOMAIN req : Resume(r)
    \/ \E r \in DOMAIN req, ok \in BOOLEAN : TgReply(r, ok)

SessSpec == ConcInit /\ [][SessNext]_vars

\* Sequence a is b with some elements left out.
RECURSIVE IsSubseq(_, _)
IsSubseq(a, b) ==
    IF a = <<>> THEN TRUE
    ELSE IF b = <<>> THEN FALSE
    ELSE IF Head(a) = Head(b) THEN IsSubseq(Tail(a), Tail(b))
    ELSE IsSubseq(a, Tail(b))

\* The handler of request r is running before and after the step.
Continues(r) == req[r].pc # "idle" /\ req'[r].pc # "idle"

\* The entries the handlers working for session c push in the step.
PushedFor(c) ==
    SumFn([r \in {q \in DOMAIN req : Continues(q) /\ req[q].chat = c} |->
              Len(req'[r].added) - Len(req[r].added)])

\* C21: when two ingestions of a session are interleaved at their
\* classifier calls, no append is lost. In every step that is not a reset
\* of the session, the ledger grows by exactly the entries the handlers
\* push in the step, after the entries it held; and the entries a handler
\* has added, if they were in the ledger in their input-line order, are
\* still there in that order with the entry just pushed.
C21_NoAppendLost ==
    [][\A c \in DOMAIN store :
          ~ResetOf(c) =>
             /\ IsPrefix(store[c].entries, store'[c].entries)
             /\ Len(store'[c].entries)
                  = Len(store[c].entries) + PushedFor(c)
             /\ \A r \in DOMAIN req :
                   (/\ Continues(r) /\ req[r].chat = c
                    /\ IsSubseq(req[r].added, store[c].entries)) =>
                      IsSubseq(req'[r].added, store'[c].entries)]_vars

\* Two messages of a session were ingested at the same time: the entry of
\* the one lies between the two entries of the other in the ledger.
C21_Witness ==
    \E r, q \in DOMAIN req :
        /\ r # q /\ req[r].chat = req[q].chat
        /\ req[r].pc = "send" /\ req[q].pc = "send"
        /\ Len(req[r].added) = 2 /\ Len(req[q].added) = 1
        /\ LedgerOf(r)
             = <<req[r].added[1], req[q].added[1], req[r].added[2]>>

\* C22: when a reset of a session is handled while an ingestion of the
\* session is suspended on a classifier call, the reset empties the ledger
\* and leaves the suspended handler as it was, and every entry a handler
\* pushes goes at the end of the ledger as it is then, so that the entries
\* from before the reset do not come back: the ledger holds exactly the
\* entries pushed since the reset.
C22_ResetDuringIngestion ==
    [][/\ \A c \in DOMAIN store :
             ResetOf(c) =>
                /\ store'[c].entries = <<>>
                /\ \A r \in DOMAIN req :
                      (Ingesting(r) /\ req[r].chat = c) => req'[r] = req[r]
       /\ \A r \in DOMAIN req :
             (Continues(r) /\ req'[r].added # req[r].added) =>
                /\ req'[r].added
                     = Append(req[r].added, req'[r].added[Len(req'[r].added)])
                /\ store'[req[r].chat].entries
                     = Append(store[req[r].chat].entries,
                              req'[r].added[Len(req'[r].added)])]_vars

\* A reset was handled between the two lines of a message being ingested:
\* the handler has added two entries and the ledger holds the second only.
C22_Witness ==
    \E r, q \in DOMAIN req :
        /\ r # q /\ req[r].chat = req[q].chat
        /\ req[q].pc = "send" /\ req[q].out.kind = "reset"
        /\ req[r].pc = "send" /\ Len(req[r].added) = 2
        /\ LedgerOf(r) = <<req[r].added[2]>>

\* Line i of the message of handler r carries no explicit date.
NoExplicitDate(r, i) ==
    /\ detectExplicitDate(req[r].lines[i].raw) = <<>>
    /\ detectExplicitDate(req[r].lines[i].rest) = <<>>

\* C23: when a handler has computed the summaries of its message, every
\* entry it created from a line with no explicit date is dated within the
\* month and the year of those summaries, whatever the relation between the
\* UTC date and the local month, and whether or not the clock moved while a
\* classifier call was pending.
C23_DefaultDateInSummaryPeriod ==
    \A r \in DOMAIN req :
        (req[r].pc = "send" /\ req[r].out.kind = "added") =>
            \A i \in 1..Len(req[r].added) :
                NoExplicitDate(r, i) =>
                    /\ monthOf(req[r].added[i].date) = req[r].out.yyyymm
                    /\ yearOf(req[r].added[i].date) = req[r].out.yyyy

====
